---------------------------- MODULE Spec2Model ----------------------------
(***************************************************************************)
(* Complaint (ticket) lifecycle of the barangay services backend:          *)
(* complaintController, bulkController, the authorize middleware and the   *)
(* persisted Notification collection.                                      *)
(*                                                                         *)
(* Abstractions: free text (title, description, response, history notes,   *)
(* notification message) is left out; a Date is kept only as set / unset.  *)
(***************************************************************************)
EXTENDS Naturals, Sequences, FiniteSets, Bags, TLC

\* ---------------------------------------------------------------- bounds
\* A command that appends to a complaint's history is taken only while the
\* history is shorter than this.
MaxHistory == 4
\* A command that persists notifications is taken only while the collection
\* holds fewer than this many.
MaxNotifications == 6
\* escalateComplaint is taken only while escalationLevel is below this.
MaxEscalation == 2
MaxComments == 2

\* ------------------------------------------------------- identity store
\* User accounts (models/User.ts): role and isVerified.
users ==
  [u \in {"r1", "r2", "s1", "a1", "a2"} |->
     CASE u \in {"r1", "r2"} -> [role |-> "resident", isVerified |-> TRUE]
       [] u = "s1"           -> [role |-> "staff", isVerified |-> TRUE]
       [] OTHER              -> [role |-> "admin", isVerified |-> TRUE]]

UserIds == DOMAIN users
UserOrder == <<"r1", "r2", "s1", "a1", "a2">>

\* The authenticated callers that issue commands (req.user).
Callers == {"r1", "s1", "a1"}

\* Request bodies the commands are tried with.
Creators == {"r1"}
StaffIdInputs == {"s1", "r2", "nobody"}
RatingInputs == {0, 1, 5, 6}
FeedbackInputs == {"thanks"}
PriorityInputs == {"none"}
IdInputs == SUBSET {"c1", "c2"}
BulkCallers == {"r1", "a1"}
\* The callers of the comment and read routes: the owner, another resident,
\* a staff member.
Commenters == {"r1", "r2", "s1"}
\* The users that open a socket, and the complaint rooms they subscribe to.
HubUsers == {"r1", "s1"}
SubscribeIds == {"c1"}
\* Requests that may be in flight at once.
Requests == {"q1", "q2"}

\* User.find({ role: r })
findByRole(r) == {u \in UserIds : users[u].role = r}

\* User.find({ role: "staff", isVerified: true })
verifiedStaff == {u \in UserIds : users[u].role = "staff" /\ users[u].isVerified}

\* ------------------------------------------------------------ data model
Statuses == {"pending", "in-progress", "resolved", "closed"}
\* Complaint ids, in the order Complaint.create hands them out.
IdOrder == <<"c1", "c2">>
ComplaintIds == {IdOrder[i] : i \in 1..Len(IdOrder)}

\* Absent optional fields.
NoUser == "none"
NoStatus == "none"
NoDate == "unset"
SomeDate == "set"
NoRating == 0
NoFeedback == "none"
NoPriority == "none"
NoId == "none"

\* HTTP status codes of the responses.
Ok == 200
Created == 201
BadRequest == 400
Forbidden == 403
NotFound == 404
ServerError == 500

\* The page size of getNotifications.
NotificationsLimit == 50

\* One element of IComplaint.history.
HistoryEntry(action, performedBy, previousStatus, newStatus) ==
  [action |-> action, performedBy |-> performedBy,
   previousStatus |-> previousStatus, newStatus |-> newStatus]

\* One element of IComplaint.comments.
Comment(userId, isInternal) == [userId |-> userId, isInternal |-> isInternal]

\* One document of the Notification collection.
Notification(userId, title, type, relatedId) ==
  [userId |-> userId, title |-> title, type |-> type, relatedId |-> relatedId]

\* The status and assignedTo query parameters of the list route; the No
\* values stand for a parameter that is not given.
StatusFilters == {NoStatus, "pending"}
AssigneeFilters == {NoUser, "s1"}

VARIABLES
  complaints,      \* the Complaint collection: id -> document
  notifications,   \* the Notification collection: a bag of documents
  resp,            \* the response the last command sent
  inflight,        \* requests between their read and their write
  io,              \* config/socket.ts: whether the Server has been created
  rooms,           \* socket.io room membership: pairs <<room, user>>
  pushed,          \* the events the last command delivered to live sockets
  published        \* the emits the last command handed to the Server

vars == <<complaints, notifications, resp, inflight, io, rooms, pushed,
          published>>

\* The response of a command: the handler that sent it and its HTTP status.
Response(op, code) == [op |-> op, code |-> code]

NoResponse == Response("none", Ok)

\* The 200 response of a bulk update: data.matched and data.modified.
BulkResponse(op, matched, modified) ==
  [op |-> op, code |-> Ok, matched |-> matched, modified |-> modified]

\* The 200 response of a bulk delete: data.deleted.
DeleteResponse(op, deleted) == [op |-> op, code |-> Ok, deleted |-> deleted]

Exists(id) == id \in DOMAIN complaints

\* Notification.create that stores the document only while the hub is up.
NotificationCreateIfLive(bag, doc) ==
  IF io THEN bag (+) SetToBag({doc}) ELSE bag

\* Notification.create(doc)
NotificationCreate(bag, doc) == bag (+) SetToBag({doc})

HasRoom(n) == BagCardinality(notifications) + n <= MaxNotifications
HistoryRoom(id, n) == Len(complaints[id].history) + n <= MaxHistory

\* authorize that lets every authenticated caller through.
authorizeAnyRole(roles, actor) == actor \in UserIds

\* middleware/auth.ts authorize(...roles)
authorize(roles, actor) == users[actor].role \in roles

\* The callers that pass authorize("admin", "staff").
Privileged == {a \in Callers : authorize({"admin", "staff"}, a)}

\* ------------------------------------------------------- config/socket.ts
\* The rooms a socket joins: user:<id>, staff-room, complaint:<id>.
UserRoom(userId) == [kind |-> "user", id |-> userId]
StaffRoom == [kind |-> "staff-room", id |-> NoId]
ComplaintRoom(complaintId) == [kind |-> "complaint", id |-> complaintId]

\* io.to(room).emit(event, data) behind the if (io) of the emit helpers: the
\* emit handed to the Server, none when the Server was never created.  Of data
\* the model keeps the isInternal flag of a comment.
Emit(room, event, isInternal) ==
  IF io
    THEN SetToBag({[room |-> room, event |-> event, isInternal |-> isInternal]})
    ELSE EmptyBag

emitToUser(userId, event) == Emit(UserRoom(userId), event, FALSE)
emitToStaff(event) == Emit(StaffRoom, event, FALSE)
emitToComplaint(complaintId, event, isInternal) ==
  Emit(ComplaintRoom(complaintId), event, isInternal)

\* The emits of a loop, one bag per iteration, put together.
RECURSIVE SumBags(_)
SumBags(bags) ==
  IF bags = <<>> THEN EmptyBag ELSE Head(bags) (+) SumBags(Tail(bags))

\* A Server that sends every emit to every connected socket, whatever rooms
\* the socket is in.
DeliveriesToEverySocket(emits) ==
  LET hits == {x \in rooms \X BagToSet(emits) : x[1][1].kind = "user"}
      Delivery(x) == [to |-> x[1][2], event |-> x[2].event, room |-> x[2].room,
                      isInternal |-> x[2].isInternal]
  IN [d \in {Delivery(x) : x \in hits} |->
        emits[[room |-> d.room, event |-> d.event, isInternal |-> d.isInternal]]]

\* What the sockets receive of a bag of emits: the Server sends each emit
\* once to every socket that is in the emit's room at that moment.
Deliveries(emits) ==
  LET hits == {x \in rooms \X BagToSet(emits) : x[1][1] = x[2].room}
      Delivery(x) == [to |-> x[1][2], event |-> x[2].event, room |-> x[2].room,
                      isInternal |-> x[2].isInternal]
  IN [d \in {Delivery(x) : x \in hits} |->
        emits[[room |-> d.room, event |-> d.event, isInternal |-> d.isInternal]]]

\* The emits of one command and what the sockets receive of them.
Send(emits) ==
  /\ published' = emits
  /\ pushed' = Deliveries(emits)

\* initializeSocket(httpServer): io = new Server(...).  The server entry
\* point (startServer) calls app.listen only, so until some caller runs this
\* function io stays undefined and every emit helper is a no-op.
initializeSocket ==
  /\ ~io
  /\ io' = TRUE
  /\ resp' = NoResponse
  /\ Send(EmptyBag)
  /\ UNCHANGED <<complaints, notifications, inflight, rooms>>

\* A connection handler that joins staff-room whatever the role.
connectionJoinsStaffRoom(userId) ==
  /\ io
  /\ <<UserRoom(userId), userId>> \notin rooms
  /\ rooms' = rooms \cup {<<UserRoom(userId), userId>>, <<StaffRoom, userId>>}
  /\ resp' = NoResponse
  /\ published' = EmptyBag
  /\ pushed' = EmptyBag
  /\ UNCHANGED <<complaints, notifications, inflight, io>>

\* io.on("connection"): the socket joins user:<id> and, for admin and staff,
\* staff-room.
connection(userId) ==
  /\ io
  /\ <<UserRoom(userId), userId>> \notin rooms
  /\ rooms' = rooms \cup {<<UserRoom(userId), userId>>}
                     \cup (IF users[userId].role \in {"admin", "staff"}
                            THEN {<<StaffRoom, userId>>} ELSE {})
  /\ resp' = NoResponse
  /\ Send(EmptyBag)
  /\ UNCHANGED <<complaints, notifications, inflight, io>>

\* socket.on("subscribe:complaint"): the socket joins complaint:<id>.
subscribeComplaint(userId, complaintId) ==
  /\ <<UserRoom(userId), userId>> \in rooms
  /\ <<ComplaintRoom(complaintId), userId>> \notin rooms
  /\ rooms' = rooms \cup {<<ComplaintRoom(complaintId), userId>>}
  /\ resp' = NoResponse
  /\ Send(EmptyBag)
  /\ UNCHANGED <<complaints, notifications, inflight, io>>

\* socket.on("unsubscribe:complaint"): the socket leaves complaint:<id>.
unsubscribeComplaint(userId, complaintId) ==
  /\ <<ComplaintRoom(complaintId), userId>> \in rooms
  /\ rooms' = rooms \ {<<ComplaintRoom(complaintId), userId>>}
  /\ resp' = NoResponse
  /\ Send(EmptyBag)
  /\ UNCHANGED <<complaints, notifications, inflight, io>>

\* socket.on("disconnect"): the socket leaves every room.
disconnect(userId) ==
  /\ <<UserRoom(userId), userId>> \in rooms
  /\ rooms' = {m \in rooms : m[2] # userId}
  /\ resp' = NoResponse
  /\ Send(EmptyBag)
  /\ UNCHANGED <<complaints, notifications, inflight, io>>

Init ==
  /\ complaints = <<>>
  /\ notifications = EmptyBag
  /\ resp = NoResponse
  /\ inflight = <<>>
  /\ io = FALSE
  /\ rooms = {}
  /\ pushed = EmptyBag
  /\ published = EmptyBag

\* ------------------------------------------------------ complaintController
\* Complaint.create({...}) of createComplaint: the new document.
NewComplaint(actor, priority) ==
  [userId |-> actor,
   status |-> "pending",
   priority |-> IF priority = NoPriority THEN "medium" ELSE priority,
   assignedTo |-> NoUser,
   resolvedBy |-> NoUser,
   resolvedAt |-> NoDate,
   rating |-> NoRating,
   feedback |-> NoFeedback,
   escalationLevel |-> 0,
   comments |-> <<>>,
   history |-> <<HistoryEntry("Complaint created", actor, NoStatus, "pending")>>]

\* The findByIdAndUpdate of autoAssignComplaint.
AutoAssigned(c, staff) ==
  [c EXCEPT !.assignedTo = staff,
            !.history = Append(@, HistoryEntry("Auto-assigned to staff", staff,
                                               NoStatus, NoStatus))]

\* The id Complaint.create gives the new document: one not yet in use.
FreshId ==
  IdOrder[CHOOSE i \in 1..Len(IdOrder) :
            ~Exists(IdOrder[i]) /\ \A j \in 1..(i - 1) : Exists(IdOrder[j])]

\* createComplaint, with the autoAssignComplaint it awaits.
createComplaint(actor, priority) ==
  /\ \E i \in 1..Len(IdOrder) : ~Exists(IdOrder[i])
  /\ \E staff \in IF verifiedStaff = {} THEN {NoUser} ELSE verifiedStaff :
       LET id == FreshId
           created == NewComplaint(actor, priority)
           assigned == IF staff = NoUser THEN created
                       ELSE AutoAssigned(created, staff)
           staffNote == IF staff = NoUser THEN EmptyBag
                        ELSE SetToBag({Notification(staff, "New Complaint Assigned",
                                                    "info", id)})
       IN /\ HasRoom(BagCardinality(staffNote) + 1)
          /\ complaints' = (id :> assigned) @@ complaints
          /\ notifications' =
               NotificationCreate(notifications (+) staffNote,
                                  Notification(actor, "Complaint Submitted",
                                               "success", id))
          /\ resp' = Response("createComplaint", Created)
          /\ Send((IF staff = NoUser THEN EmptyBag
                    ELSE emitToUser(staff, "complaint:assigned"))
                   (+) emitToStaff("complaint:new"))
  /\ UNCHANGED <<inflight, io, rooms>>

\* createComplaint when an await inside the try of autoAssignComplaint
\* rejects: at "update" the findByIdAndUpdate, at "notify" the
\* Notification.create after it.  The catch logs the error and createComplaint
\* goes on with its own notification, emit and response.
createComplaintAutoAssignFails(actor, priority, failAt) ==
  /\ \E i \in 1..Len(IdOrder) : ~Exists(IdOrder[i])
  /\ verifiedStaff # {}
  /\ \E staff \in verifiedStaff :
       LET id == FreshId
           created == NewComplaint(actor, priority)
           assigned == IF failAt = "update" THEN created
                       ELSE AutoAssigned(created, staff)
       IN /\ HasRoom(1)
          /\ complaints' = (id :> assigned) @@ complaints
          /\ notifications' =
               NotificationCreate(notifications,
                                  Notification(actor, "Complaint Submitted",
                                               "success", id))
          /\ resp' = Response("createComplaint", Created)
          /\ Send(emitToStaff("complaint:new"))
  /\ UNCHANGED <<inflight, io, rooms>>

\* StatusUpdate with previousStatus taken after the status was overwritten.
StatusUpdatePreviousAfterWrite(c, actor, previousStatus, status) ==
  [c EXCEPT !.status = status,
            !.resolvedBy = IF status \in {"resolved", "closed"} THEN actor ELSE @,
            !.resolvedAt = IF status \in {"resolved", "closed"} THEN SomeDate ELSE @,
            !.history = Append(@, HistoryEntry("Status updated", actor,
                                               status, status))]

\* The update document of updateComplaintStatus applied by findByIdAndUpdate:
\* status, resolvedBy/resolvedAt when entering resolved or closed, and the
\* $push of the history entry built from the status read before.
StatusUpdate(c, actor, previousStatus, status) ==
  [c EXCEPT !.status = status,
            !.resolvedBy = IF status \in {"resolved", "closed"} THEN actor ELSE @,
            !.resolvedAt = IF status \in {"resolved", "closed"} THEN SomeDate ELSE @,
            !.history = Append(@, HistoryEntry("Status updated", actor,
                                               previousStatus, status))]

\* The Notification updateComplaintStatus creates for the owner.
StatusNotification(c, id, status) ==
  Notification(c.userId, "Complaint Update",
               IF status = "resolved" THEN "success" ELSE "info", id)

\* The two emits of updateComplaintStatus: to the owner's room and to the
\* complaint's room.
StatusEvents(c, id) ==
  emitToUser(c.userId, "complaint:status-changed")
    (+) emitToComplaint(id, "status:updated", FALSE)

\* updateComplaintStatus answering 500 when no socket received its events.
updateComplaintStatusFailsUnpublished(actor, id, status) ==
  /\ IF ~authorize({"admin", "staff"}, actor)
       THEN /\ resp' = Response("updateComplaintStatus", Forbidden)
            /\ UNCHANGED <<complaints, notifications>>
     ELSE IF ~Exists(id)
       THEN /\ resp' = Response("updateComplaintStatus", NotFound)
            /\ UNCHANGED <<complaints, notifications>>
     ELSE /\ HistoryRoom(id, 1)
          /\ HasRoom(1)
          /\ complaints' = [complaints EXCEPT
                              ![id] = StatusUpdate(@, actor, @.status, status)]
          /\ notifications' =
               NotificationCreate(notifications,
                                  StatusNotification(complaints[id], id, status))
          /\ resp' = Response("updateComplaintStatus",
                               IF Deliveries(StatusEvents(complaints[id], id)) = EmptyBag
                                 THEN ServerError ELSE Ok)
  /\ Send(IF resp'.code = Ok THEN StatusEvents(complaints[id], id) ELSE EmptyBag)
  /\ UNCHANGED <<inflight, io, rooms>>

\* PUT /:id/status: authorize("admin", "staff"), then updateComplaintStatus
\* run without another command in between.
updateComplaintStatus(actor, id, status) ==
  /\ IF ~authorize({"admin", "staff"}, actor)
       THEN /\ resp' = Response("updateComplaintStatus", Forbidden)
            /\ UNCHANGED <<complaints, notifications>>
     ELSE IF ~Exists(id)
       THEN /\ resp' = Response("updateComplaintStatus", NotFound)
            /\ UNCHANGED <<complaints, notifications>>
     ELSE /\ HistoryRoom(id, 1)
          /\ HasRoom(1)
          /\ complaints' = [complaints EXCEPT
                              ![id] = StatusUpdate(@, actor, @.status, status)]
          /\ notifications' =
               NotificationCreate(notifications,
                                  StatusNotification(complaints[id], id, status))
          /\ resp' = Response("updateComplaintStatus", Ok)
  /\ Send(IF resp'.code = Ok THEN StatusEvents(complaints[id], id) ELSE EmptyBag)
  /\ UNCHANGED <<inflight, io, rooms>>

\* The emits of updateComplaintStatus that run when the awaited
\* Notification.create rejected: control is in the catch block, none is reached.
EventsAfterRejectedCreate(c, id) == EmptyBag

\* updateComplaintStatus when Notification.create rejects: findByIdAndUpdate
\* has been applied, the catch block answers 500.
updateComplaintStatusCreateRejects(actor, id, status) ==
  /\ authorize({"admin", "staff"}, actor)
  /\ Exists(id)
  /\ HistoryRoom(id, 1)
  /\ complaints' = [complaints EXCEPT
                      ![id] = StatusUpdate(@, actor, @.status, status)]
  /\ resp' = Response("updateComplaintStatus", ServerError)
  /\ Send(EventsAfterRejectedCreate(complaints[id], id))
  /\ UNCHANGED <<notifications, inflight, io, rooms>>

\* updateComplaintStatus up to its first await: authorize, then
\* Complaint.findById; the request keeps what it read.
readComplaintStatus(q, actor, id, status) ==
  /\ q \notin DOMAIN inflight
  /\ IF ~authorize({"admin", "staff"}, actor)
       THEN /\ resp' = Response("updateComplaintStatus", Forbidden)
            /\ UNCHANGED inflight
     ELSE IF ~Exists(id)
       THEN /\ resp' = Response("updateComplaintStatus", NotFound)
            /\ UNCHANGED inflight
     ELSE /\ inflight' = (q :> [actor |-> actor, id |-> id, status |-> status,
                                previousStatus |-> complaints[id].status,
                                userId |-> complaints[id].userId]) @@ inflight
          /\ resp' = NoResponse
  /\ Send(EmptyBag)
  /\ UNCHANGED <<complaints, notifications, io, rooms>>

\* The rest of updateComplaintStatus: findByIdAndUpdate with the update built
\* from the earlier read, Notification.create, the response.
writeComplaintStatus(q) ==
  /\ q \in DOMAIN inflight
  /\ LET r == inflight[q]
     IN /\ HistoryRoom(r.id, 1)
        /\ HasRoom(1)
        /\ complaints' = [complaints EXCEPT
             ![r.id] = StatusUpdate(@, r.actor, r.previousStatus, r.status)]
        /\ notifications' =
             NotificationCreate(notifications,
                                StatusNotification(complaints[r.id], r.id, r.status))
        /\ resp' = Response("updateComplaintStatus", Ok)
        /\ Send(StatusEvents(complaints[r.id], r.id))
  /\ inflight' = [p \in DOMAIN inflight \ {q} |-> inflight[p]]
  /\ UNCHANGED <<io, rooms>>

\* PUT /:id/assign: authorize("admin", "staff"), then assignComplaint.
assignComplaint(actor, id, staffId) ==
  /\ IF ~authorize({"admin", "staff"}, actor)
       THEN /\ resp' = Response("assignComplaint", Forbidden)
            /\ UNCHANGED <<complaints, notifications>>
     ELSE IF staffId \notin UserIds \/ users[staffId].role # "staff"
       THEN /\ resp' = Response("assignComplaint", BadRequest)
            /\ UNCHANGED <<complaints, notifications>>
     ELSE IF ~Exists(id)
       THEN /\ resp' = Response("assignComplaint", NotFound)
            /\ UNCHANGED <<complaints, notifications>>
     ELSE /\ HistoryRoom(id, 1)
          /\ HasRoom(1)
          /\ complaints' = [complaints EXCEPT
               ![id].assignedTo = staffId,
               ![id].history = Append(@, HistoryEntry("Complaint assigned", actor,
                                                      NoStatus, NoStatus))]
          /\ notifications' =
               NotificationCreate(notifications,
                                  Notification(staffId, "Complaint Assigned",
                                               "info", id))
          /\ resp' = Response("assignComplaint", Ok)
  /\ Send(IF resp'.code = Ok THEN emitToUser(staffId, "complaint:assigned")
          ELSE EmptyBag)
  /\ UNCHANGED <<inflight, io, rooms>>

\* rateStatus without the ownership check.
rateStatusAnyCaller(actor, id, rating) ==
  IF rating < 1 \/ rating > 5 THEN BadRequest
  ELSE IF ~Exists(id) THEN NotFound
  ELSE IF complaints[id].status # "resolved" THEN BadRequest
  ELSE Ok

\* The checks of rateComplaint, in the order the handler makes them: the HTTP
\* status it answers with.
rateStatus(actor, id, rating) ==
  IF rating < 1 \/ rating > 5 THEN BadRequest
  ELSE IF ~Exists(id) THEN NotFound
  ELSE IF complaints[id].userId # actor THEN Forbidden
  ELSE IF complaints[id].status # "resolved" THEN BadRequest
  ELSE Ok

\* complaint.rating = rating; complaint.feedback = feedback; complaint.save()
Rated(c, rating, feedback) ==
  [c EXCEPT !.rating = rating, !.feedback = feedback]

\* POST /:id/rate: rateComplaint.
rateComplaint(actor, id, rating, feedback) ==
  /\ IF rateStatus(actor, id, rating) # Ok
       THEN /\ resp' = Response("rateComplaint", rateStatus(actor, id, rating))
            /\ UNCHANGED <<complaints, notifications>>
     ELSE LET c == complaints[id]
          IN /\ complaints' = [complaints EXCEPT ![id] = Rated(@, rating, feedback)]
             /\ IF c.assignedTo # NoUser
                  THEN /\ HasRoom(1)
                       /\ notifications' =
                            NotificationCreate(notifications,
                              Notification(c.assignedTo, "Complaint Rated",
                                           "info", id))
                  ELSE UNCHANGED notifications
             /\ resp' = Response("rateComplaint", Ok)
  /\ Send(IF resp'.code = Ok /\ complaints[id].assignedTo # NoUser
            THEN emitToUser(complaints[id].assignedTo, "complaint:rated")
          ELSE EmptyBag)
  /\ UNCHANGED <<inflight, io, rooms>>

\* Escalated without the priority assignment.
EscalatedKeepsPriority(c, actor) ==
  [c EXCEPT !.escalationLevel = @ + 1,
            !.history = Append(@, HistoryEntry("Complaint escalated", actor,
                                               NoStatus, NoStatus))]

\* The fields escalateComplaint changes before complaint.save().
Escalated(c, actor) ==
  [c EXCEPT !.escalationLevel = @ + 1,
            !.priority = "high",
            !.history = Append(@, HistoryEntry("Complaint escalated", actor,
                                               NoStatus, NoStatus))]

\* EscalationNotifications with User.findOne in place of User.find.
EscalationNotificationsOneAdmin(id) ==
  SetToBag({Notification(CHOOSE admin \in findByRole("admin") : TRUE,
                         "Complaint Escalated", "warning", id)})

\* The loop of escalateComplaint over User.find({ role: "admin" }).
EscalationNotifications(id) ==
  SetToBag({Notification(admin, "Complaint Escalated", "warning", id) :
              admin \in findByRole("admin")})

\* The emits of the same loop, one per admin.
EscalationEvents ==
  SumBags([i \in 1..Len(UserOrder) |->
             IF UserOrder[i] \in findByRole("admin")
               THEN emitToUser(UserOrder[i], "complaint:escalated")
               ELSE EmptyBag])

\* POST /:id/escalate: authorize("admin", "staff"), then escalateComplaint.
escalateComplaint(actor, id) ==
  /\ IF ~authorize({"admin", "staff"}, actor)
       THEN /\ resp' = Response("escalateComplaint", Forbidden)
            /\ UNCHANGED <<complaints, notifications>>
     ELSE IF ~Exists(id)
       THEN /\ resp' = Response("escalateComplaint", NotFound)
            /\ UNCHANGED <<complaints, notifications>>
     ELSE /\ HistoryRoom(id, 1)
          /\ complaints[id].escalationLevel < MaxEscalation
          /\ HasRoom(BagCardinality(EscalationNotifications(id)))
          /\ complaints' = [complaints EXCEPT ![id] = Escalated(@, actor)]
          /\ notifications' = notifications (+) EscalationNotifications(id)
          /\ resp' = Response("escalateComplaint", Ok)
  /\ Send(IF resp'.code = Ok THEN EscalationEvents ELSE EmptyBag)
  /\ UNCHANGED <<inflight, io, rooms>>

\* A save that writes the history array of the document it read, with the new
\* entry at its end, over the stored one.
SavedEscalationSetsHistory(c, actor, doc) ==
  [c EXCEPT !.escalationLevel = doc.escalationLevel + 1,
            !.priority = "high",
            !.history = Append(doc.history,
                               HistoryEntry("Complaint escalated", actor,
                                            NoStatus, NoStatus))]

\* complaint.save() of escalateComplaint on the stored complaint c, doc being
\* the document findById returned: escalationLevel and priority are assigned,
\* so save sets them to the values computed from doc; history.push is sent
\* as a $push, so the entry goes to the end of the stored array.
SavedEscalation(c, actor, doc) ==
  [c EXCEPT !.escalationLevel = doc.escalationLevel + 1,
            !.priority = "high",
            !.history = Append(@, HistoryEntry("Complaint escalated", actor,
                                               NoStatus, NoStatus))]

\* escalateComplaint up to its first await: authorize, then
\* Complaint.findById; the request keeps the document it read.
readEscalate(q, actor, id) ==
  /\ q \notin DOMAIN inflight
  /\ IF ~authorize({"admin", "staff"}, actor)
       THEN /\ resp' = Response("escalateComplaint", Forbidden)
            /\ UNCHANGED inflight
     ELSE IF ~Exists(id)
       THEN /\ resp' = Response("escalateComplaint", NotFound)
            /\ UNCHANGED inflight
     ELSE /\ complaints[id].escalationLevel < MaxEscalation
          /\ inflight' = (q :> [actor |-> actor, id |-> id,
                                doc |-> complaints[id]]) @@ inflight
          /\ resp' = NoResponse
  /\ Send(EmptyBag)
  /\ UNCHANGED <<complaints, notifications, io, rooms>>

\* The rest of escalateComplaint: complaint.save(), the notifications and
\* emits to the admins, the response.
writeEscalate(q) ==
  /\ q \in DOMAIN inflight
  /\ LET r == inflight[q]
     IN /\ HistoryRoom(r.id, 1)
        /\ HasRoom(BagCardinality(EscalationNotifications(r.id)))
        /\ complaints' = [complaints EXCEPT
             ![r.id] = SavedEscalation(@, r.actor, r.doc)]
        /\ notifications' = notifications (+) EscalationNotifications(r.id)
        /\ resp' = Response("escalateComplaint", Ok)
        /\ Send(EscalationEvents)
  /\ inflight' = [p \in DOMAIN inflight \ {q} |-> inflight[p]]
  /\ UNCHANGED <<io, rooms>>

\* DELETE /:id: authenticate, then deleteComplaint.
deleteComplaint(actor, id) ==
  /\ IF ~Exists(id)
       THEN /\ resp' = Response("deleteComplaint", NotFound)
            /\ UNCHANGED complaints
     ELSE IF complaints[id].status # "pending" \/ complaints[id].userId # actor
       THEN /\ resp' = Response("deleteComplaint", Forbidden)
            /\ UNCHANGED complaints
     ELSE /\ complaints' = [i \in DOMAIN complaints \ {id} |-> complaints[i]]
          /\ resp' = Response("deleteComplaint", Ok)
  /\ Send(EmptyBag)
  /\ UNCHANGED <<notifications, inflight, io, rooms>>

\* The condition under which addComment notifies the owner, without its
\* isInternal part.
NotifiesOwnerAlsoInternal(c, actor, isInternal) == c.userId # actor

\* if (!isInternal && complaint.userId.toString() !== req.user?.id)
NotifiesOwner(c, actor, isInternal) == ~isInternal /\ c.userId # actor

\* The $push of addComment: one comment and one history entry.
Commented(c, actor, isInternal) ==
  [c EXCEPT !.comments = Append(@, Comment(actor, isInternal)),
            !.history = Append(@, HistoryEntry("Comment added", actor,
                                               NoStatus, NoStatus))]

\* POST /:id/comments: authenticate, then addComment.
addComment(actor, id, isInternal) ==
  /\ IF ~Exists(id)
       THEN /\ resp' = Response("addComment", NotFound)
            /\ Send(EmptyBag)
            /\ UNCHANGED <<complaints, notifications>>
     ELSE LET c == complaints[id]
              notify == NotifiesOwner(c, actor, isInternal)
          IN /\ HistoryRoom(id, 1)
             /\ Len(c.comments) < MaxComments
             /\ notify => HasRoom(1)
             /\ complaints' = [complaints EXCEPT
                                 ![id] = Commented(@, actor, isInternal)]
             /\ notifications' =
                  IF notify
                    THEN NotificationCreate(notifications,
                           Notification(c.userId, "New Comment on Your Complaint",
                                        "info", id))
                    ELSE notifications
             /\ Send((IF notify
                        THEN emitToUser(c.userId, "complaint:new-comment")
                        ELSE EmptyBag)
                      (+) emitToComplaint(id, "comment:added", isInternal))
             /\ resp' = [op |-> "addComment", code |-> Ok, data |-> complaints'[id]]
  /\ UNCHANGED <<inflight, io, rooms>>

\* GET /:id: authenticate, then getComplaintById.
getComplaintById(actor, id) ==
  /\ resp' = IF ~Exists(id)
                THEN Response("getComplaintById", NotFound)
              ELSE IF users[actor].role = "resident"
                      /\ complaints[id].userId # actor
                THEN Response("getComplaintById", Forbidden)
              ELSE [op |-> "getComplaintById", code |-> Ok, data |-> complaints[id]]
  /\ Send(EmptyBag)
  /\ UNCHANGED <<complaints, notifications, inflight, io, rooms>>

\* The query of getComplaints with the role-based part left out: only what
\* the caller asked for.
ComplaintsQueryFilterOnly(actor, status, assignedTo) ==
  {id \in DOMAIN complaints :
     /\ status # NoStatus => complaints[id].status = status
     /\ assignedTo # NoUser => complaints[id].assignedTo = assignedTo}

\* The query of getComplaints: a resident's own complaints, a staff member's
\* assigned ones unless an assignedTo filter is given, everything for an
\* admin; then the status and assignedTo filters of the request.
ComplaintsQuery(actor, status, assignedTo) ==
  {id \in DOMAIN complaints :
     /\ users[actor].role = "resident" => complaints[id].userId = actor
     /\ (users[actor].role = "staff" /\ assignedTo = NoUser)
          => complaints[id].assignedTo = actor
     /\ status # NoStatus => complaints[id].status = status
     /\ assignedTo # NoUser => complaints[id].assignedTo = assignedTo}

\* GET /: authenticate, then getComplaints.
getComplaints(actor, status, assignedTo) ==
  /\ resp' = [op |-> "getComplaints", code |-> Ok,
               data |-> [id \in ComplaintsQuery(actor, status, assignedTo) |->
                           complaints[id]]]
  /\ Send(EmptyBag)
  /\ UNCHANGED <<complaints, notifications, inflight, io, rooms>>

\* ------------------------------------------------------- bulkController
\* The updateMany of bulkUpdateStatus on one matched document.
BulkStatusUpdate(c, actor, status) ==
  [c EXCEPT !.status = status,
            !.resolvedBy = IF status \in {"resolved", "closed"} THEN actor ELSE @,
            !.resolvedAt = IF status \in {"resolved", "closed"} THEN SomeDate ELSE @,
            !.history = Append(@, HistoryEntry("Bulk status update", actor,
                                               NoStatus, status))]

\* Complaint.find({ _id: { $in: complaintIds } }): the ids that match.
Matched(complaintIds) == complaintIds \cap DOMAIN complaints

\* result.matchedCount of an updateMany over the batch; every update document
\* of this controller carries a $push or a new updatedAt, so result.modifiedCount
\* is the same number.
MatchedCount(complaintIds) == Cardinality(Matched(complaintIds))

\* The notifications bulkUpdateStatus creates, one per matched complaint.
BulkStatusNotifications(complaintIds, status) ==
  SetToBag({Notification(complaints[id].userId, "Complaint Updated",
                         IF status = "resolved" THEN "success" ELSE "info", id) :
              id \in Matched(complaintIds)})

\* The emits of the same loop: to the owner's room and to the complaint's
\* room, for every matched complaint.
BulkStatusEvents(complaintIds) ==
  SumBags([i \in 1..Len(IdOrder) |->
             IF IdOrder[i] \in Matched(complaintIds)
               THEN emitToUser(complaints[IdOrder[i]].userId, "complaint:updated")
                    (+) emitToComplaint(IdOrder[i], "status:changed", FALSE)
               ELSE EmptyBag])

\* PUT /bulk/complaints/status: authorize("admin", "staff"), bulkUpdateStatus.
bulkUpdateStatus(actor, complaintIds, status) ==
  /\ IF ~authorize({"admin", "staff"}, actor)
       THEN /\ resp' = Response("bulkUpdateStatus", Forbidden)
            /\ UNCHANGED <<complaints, notifications>>
     ELSE IF complaintIds = {}
       THEN /\ resp' = Response("bulkUpdateStatus", BadRequest)
            /\ UNCHANGED <<complaints, notifications>>
     ELSE /\ \A id \in Matched(complaintIds) : HistoryRoom(id, 1)
          /\ HasRoom(Cardinality(Matched(complaintIds)))
          /\ complaints' =
               [id \in DOMAIN complaints |->
                  IF id \in complaintIds
                    THEN BulkStatusUpdate(complaints[id], actor, status)
                    ELSE complaints[id]]
          /\ notifications' =
               notifications (+) BulkStatusNotifications(complaintIds, status)
          /\ resp' = BulkResponse("bulkUpdateStatus", MatchedCount(complaintIds),
                                   MatchedCount(complaintIds))
  /\ Send(IF resp'.code = Ok THEN BulkStatusEvents(complaintIds) ELSE EmptyBag)
  /\ UNCHANGED <<inflight, io, rooms>>

\* PUT /bulk/complaints/assign: authorize("admin", "staff"), bulkAssign.
bulkAssign(actor, complaintIds, staffId) ==
  /\ IF ~authorize({"admin", "staff"}, actor)
       THEN /\ resp' = Response("bulkAssign", Forbidden)
            /\ UNCHANGED <<complaints, notifications>>
     ELSE IF complaintIds = {}
               \/ staffId \notin UserIds \/ users[staffId].role # "staff"
       THEN /\ resp' = Response("bulkAssign", BadRequest)
            /\ UNCHANGED <<complaints, notifications>>
     ELSE /\ \A id \in Matched(complaintIds) : HistoryRoom(id, 1)
          /\ HasRoom(1)
          /\ complaints' =
               [id \in DOMAIN complaints |->
                  IF id \in complaintIds
                    THEN [complaints[id] EXCEPT
                            !.assignedTo = staffId,
                            !.history = Append(@, HistoryEntry("Bulk assignment",
                                                 actor, NoStatus, NoStatus))]
                    ELSE complaints[id]]
          /\ notifications' =
               NotificationCreate(notifications,
                                  Notification(staffId, "Bulk Assignment",
                                               "info", NoId))
          /\ resp' = BulkResponse("bulkAssign", MatchedCount(complaintIds),
                                   MatchedCount(complaintIds))
  /\ Send(IF resp'.code = Ok
            THEN emitToUser(staffId, "complaints:bulk-assigned")
          ELSE EmptyBag)
  /\ UNCHANGED <<inflight, io, rooms>>

\* POST /bulk/complaints/status: authorize("admin", "staff"), then
\* bulkUpdateComplaintsStatus: updateMany({ status, updatedAt }).
bulkUpdateComplaintsStatus(actor, complaintIds, status) ==
  /\ IF ~authorize({"admin", "staff"}, actor)
       THEN /\ resp' = Response("bulkUpdateComplaintsStatus", Forbidden)
            /\ UNCHANGED complaints
     ELSE IF complaintIds = {}
       THEN /\ resp' = Response("bulkUpdateComplaintsStatus", BadRequest)
            /\ UNCHANGED complaints
     ELSE /\ complaints' =
               [id \in DOMAIN complaints |->
                  IF id \in complaintIds
                    THEN [complaints[id] EXCEPT !.status = status]
                    ELSE complaints[id]]
          /\ resp' = BulkResponse("bulkUpdateComplaintsStatus",
                                   MatchedCount(complaintIds),
                                   MatchedCount(complaintIds))
  /\ Send(EmptyBag)
  /\ UNCHANGED <<notifications, inflight, io, rooms>>

\* POST /bulk/complaints/assign: authorize("admin", "staff"), then
\* bulkAssignComplaints: updateMany({ assignedTo, status: "in-progress" }).
bulkAssignComplaints(actor, complaintIds, assignedTo) ==
  /\ IF ~authorize({"admin", "staff"}, actor)
       THEN /\ resp' = Response("bulkAssignComplaints", Forbidden)
            /\ UNCHANGED complaints
     ELSE IF complaintIds = {}
       THEN /\ resp' = Response("bulkAssignComplaints", BadRequest)
            /\ UNCHANGED complaints
     ELSE /\ complaints' =
               [id \in DOMAIN complaints |->
                  IF id \in complaintIds
                    THEN [complaints[id] EXCEPT !.assignedTo = assignedTo,
                                                !.status = "in-progress"]
                    ELSE complaints[id]]
          /\ resp' = BulkResponse("bulkAssignComplaints",
                                   MatchedCount(complaintIds),
                                   MatchedCount(complaintIds))
  /\ Send(EmptyBag)
  /\ UNCHANGED <<notifications, inflight, io, rooms>>

\* Complaint.deleteMany({ _id: { $in: complaintIds }, status: "pending" })
PendingOf(complaintIds) ==
  {id \in Matched(complaintIds) : complaints[id].status = "pending"}

\* The collection after deleteMany removed the documents in gone.
DeleteMany(gone) == [id \in DOMAIN complaints \ gone |-> complaints[id]]

\* DELETE /bulk/complaints: authorize("admin"), then bulkDelete.
bulkDelete(actor, complaintIds) ==
  /\ IF ~authorize({"admin"}, actor)
       THEN /\ resp' = Response("bulkDelete", Forbidden)
            /\ UNCHANGED complaints
     ELSE IF complaintIds = {}
       THEN /\ resp' = Response("bulkDelete", BadRequest)
            /\ UNCHANGED complaints
     ELSE /\ complaints' = DeleteMany(PendingOf(complaintIds))
          /\ resp' = DeleteResponse("bulkDelete",
                                     Cardinality(PendingOf(complaintIds)))
  /\ Send(EmptyBag)
  /\ UNCHANGED <<notifications, inflight, io, rooms>>

\* POST /bulk/complaints/delete: authorize("admin"), then
\* bulkDeleteComplaints: deleteMany({ _id: { $in: complaintIds } }).
bulkDeleteComplaints(actor, complaintIds) ==
  /\ IF ~authorize({"admin"}, actor)
       THEN /\ resp' = Response("bulkDeleteComplaints", Forbidden)
            /\ UNCHANGED complaints
     ELSE IF complaintIds = {}
       THEN /\ resp' = Response("bulkDeleteComplaints", BadRequest)
            /\ UNCHANGED complaints
     ELSE /\ complaints' = DeleteMany(Matched(complaintIds))
          /\ resp' = DeleteResponse("bulkDeleteComplaints",
                                     MatchedCount(complaintIds))
  /\ Send(EmptyBag)
  /\ UNCHANGED <<notifications, inflight, io, rooms>>

\* ------------------------------------------------- notificationController
\* Notification.find({ userId }).sort({ createdAt: -1 }).limit(50): the
\* documents of the caller; the store of this model never holds more than
\* the limit, so none is cut off.
Inbox(userId, bag) ==
  [n \in {m \in BagToSet(bag) : m.userId = userId} |-> CopiesIn(n, bag)]

\* GET /notifications: getNotifications.
getNotifications(actor) ==
  /\ BagCardinality(notifications) <= NotificationsLimit
  /\ resp' = [op |-> "getNotifications", code |-> Ok,
               data |-> Inbox(actor, notifications)]
  /\ Send(EmptyBag)
  /\ UNCHANGED <<complaints, notifications, inflight, io, rooms>>

Next ==
  \/ \E actor \in Creators, priority \in PriorityInputs :
       \* Spec follows one complaint ("c1"); "c2" stays an id of no document.
       /\ DOMAIN complaints = {}
       /\ createComplaint(actor, priority)
  \/ \E actor \in Callers, id \in ComplaintIds, status \in Statuses :
       updateComplaintStatus(actor, id, status)
  \/ \E actor \in Callers, id \in ComplaintIds, staffId \in StaffIdInputs :
       assignComplaint(actor, id, staffId)
  \/ \E actor \in Callers, id \in ComplaintIds,
        rating \in RatingInputs, feedback \in FeedbackInputs :
       rateComplaint(actor, id, rating, feedback)
  \/ \E actor \in Callers, id \in ComplaintIds : escalateComplaint(actor, id)

\* The bulkController commands.
NextBulk ==
  \/ \E actor \in BulkCallers, complaintIds \in IdInputs, status \in Statuses :
       bulkUpdateStatus(actor, complaintIds, status)
  \/ \E actor \in BulkCallers, complaintIds \in IdInputs, staffId \in StaffIdInputs :
       bulkAssign(actor, complaintIds, staffId)
  \/ \E actor \in BulkCallers, complaintIds \in IdInputs, status \in Statuses :
       bulkUpdateComplaintsStatus(actor, complaintIds, status)
  \/ \E actor \in BulkCallers, complaintIds \in IdInputs, staffId \in StaffIdInputs :
       bulkAssignComplaints(actor, complaintIds, staffId)
  \/ \E actor \in BulkCallers, complaintIds \in IdInputs :
       bulkDelete(actor, complaintIds)
  \/ \E actor \in BulkCallers, complaintIds \in IdInputs :
       bulkDeleteComplaints(actor, complaintIds)

Spec == Init /\ [][Next]_vars

\* The status commands with the await between the read and the write of
\* updateComplaintStatus as an interleaving point.
NextInterleaved ==
  \/ \E actor \in Creators, priority \in PriorityInputs :
       /\ DOMAIN complaints = {}
       /\ createComplaint(actor, priority)
  \/ \E q \in Requests, actor \in Callers, id \in ComplaintIds, status \in Statuses :
       readComplaintStatus(q, actor, id, status)
  \/ \E q \in Requests : writeComplaintStatus(q)

SpecInterleaved == Init /\ [][NextInterleaved]_vars

\* One complaint under the bulkController commands.
NextBulkOnly ==
  \/ \E actor \in Creators, priority \in PriorityInputs :
       /\ DOMAIN complaints = {}
       /\ createComplaint(actor, priority)
  \/ NextBulk

SpecBulk == Init /\ [][NextBulkOnly]_vars

\* The socket server's own events.
NextSocket ==
  \/ initializeSocket
  \/ \E userId \in HubUsers : connection(userId)
  \/ \E userId \in HubUsers, complaintId \in SubscribeIds :
       subscribeComplaint(userId, complaintId)
  \/ \E userId \in HubUsers, complaintId \in SubscribeIds :
       unsubscribeComplaint(userId, complaintId)
  \/ \E userId \in HubUsers : disconnect(userId)

\* One complaint under status updates, with the socket server coming up,
\* sockets connecting and leaving, and Notification.create failing.
NextHub ==
  \/ \E actor \in Creators, priority \in PriorityInputs :
       /\ DOMAIN complaints = {}
       /\ createComplaint(actor, priority)
  \/ \E actor \in Privileged, id \in ComplaintIds, status \in Statuses :
       updateComplaintStatus(actor, id, status)
  \/ \E actor \in Privileged, id \in ComplaintIds, status \in Statuses :
       updateComplaintStatusCreateRejects(actor, id, status)
  \/ \E actor \in HubUsers : getNotifications(actor)
  \/ NextSocket

SpecHub == Init /\ [][NextHub]_vars

\* One complaint being created, with the awaits of autoAssignComplaint
\* failing or not, then moved through statuses and its notifications read.
NextCreate ==
  \/ \E actor \in Creators, priority \in PriorityInputs :
       /\ DOMAIN complaints = {}
       /\ createComplaint(actor, priority)
  \/ \E actor \in Creators, priority \in PriorityInputs,
        failAt \in {"update", "notify"} :
       /\ DOMAIN complaints = {}
       /\ createComplaintAutoAssignFails(actor, priority, failAt)
  \/ \E actor \in Privileged, id \in ComplaintIds, status \in Statuses :
       updateComplaintStatus(actor, id, status)
  \/ \E actor \in HubUsers : getNotifications(actor)

SpecCreate == Init /\ [][NextCreate]_vars

\* One complaint under escalations whose read and write steps interleave
\* with each other and with comments.
NextEscalate ==
  \/ \E actor \in Creators, priority \in PriorityInputs :
       /\ DOMAIN complaints = {}
       /\ createComplaint(actor, priority)
  \/ \E q \in Requests, actor \in Callers, id \in ComplaintIds :
       readEscalate(q, actor, id)
  \/ \E q \in Requests : writeEscalate(q)
  \/ \E actor \in Commenters, id \in ComplaintIds, isInternal \in BOOLEAN :
       addComment(actor, id, isInternal)

SpecEscalate == Init /\ [][NextEscalate]_vars

\* One complaint under comments and reads, with sockets connecting and
\* subscribing to the complaint's room.
NextComments ==
  \/ \E actor \in Creators, priority \in PriorityInputs :
       /\ DOMAIN complaints = {}
       /\ createComplaint(actor, priority)
  \/ \E actor \in Commenters, id \in ComplaintIds, isInternal \in BOOLEAN :
       addComment(actor, id, isInternal)
  \/ \E actor \in Commenters, id \in ComplaintIds : getComplaintById(actor, id)
  \/ \E actor \in Commenters, status \in StatusFilters,
        assignedTo \in AssigneeFilters :
       getComplaints(actor, status, assignedTo)
  \/ NextSocket

SpecComments == Init /\ [][NextComments]_vars

\* One complaint moved through its statuses, with the owner, another resident
\* and a staff member asking for its deletion.
NextDelete ==
  \/ \E actor \in Creators, priority \in PriorityInputs :
       /\ DOMAIN complaints = {}
       /\ createComplaint(actor, priority)
  \/ \E actor \in Privileged, id \in ComplaintIds, status \in Statuses :
       updateComplaintStatus(actor, id, status)
  \/ \E actor \in Commenters, id \in ComplaintIds : deleteComplaint(actor, id)

SpecDelete == Init /\ [][NextDelete]_vars

\* The residents of the user collection.
Residents == findByRole("resident")

\* The bodies residents send to the staff-only routes; authorize answers
\* before a handler reads the body.
ResidentStatusInputs == {"closed"}
ResidentStaffIdInputs == {"s1"}

\* The staff-only commands called by a resident.
ResidentCalls ==
  \E actor \in Residents :
    \/ \E id \in ComplaintIds, status \in ResidentStatusInputs :
         updateComplaintStatus(actor, id, status)
    \/ \E id \in ComplaintIds, staffId \in ResidentStaffIdInputs :
         assignComplaint(actor, id, staffId)
    \/ \E id \in ComplaintIds : escalateComplaint(actor, id)
    \/ \E complaintIds \in IdInputs, status \in ResidentStatusInputs :
         \/ bulkUpdateStatus(actor, complaintIds, status)
         \/ bulkUpdateComplaintsStatus(actor, complaintIds, status)
    \/ \E complaintIds \in IdInputs, staffId \in ResidentStaffIdInputs :
         \/ bulkAssign(actor, complaintIds, staffId)
         \/ bulkAssignComplaints(actor, complaintIds, staffId)
    \/ \E complaintIds \in IdInputs :
         \/ bulkDelete(actor, complaintIds)
         \/ bulkDeleteComplaints(actor, complaintIds)

\* One complaint moved through its statuses by staff and admin, with
\* residents calling the staff-only routes.
NextAccess ==
  \/ \E actor \in Creators, priority \in PriorityInputs :
       /\ DOMAIN complaints = {}
       /\ createComplaint(actor, priority)
  \/ \E actor \in Privileged, id \in ComplaintIds, status \in Statuses :
       updateComplaintStatus(actor, id, status)
  \/ ResidentCalls

SpecAccess == Init /\ [][NextAccess]_vars

\* ------------------------------------------------------------------ claims
\* The transition graph of the specification (4.6): pending to in-progress or
\* closed, in-progress to resolved or closed, resolved to closed.
ValidTransition(s, t) ==
  \/ s = "pending" /\ t \in {"in-progress", "closed"}
  \/ s = "in-progress" /\ t \in {"resolved", "closed"}
  \/ s = "resolved" /\ t = "closed"

Last(h) == h[Len(h)]

\* C1: a transition command by staff or admin whose (current status, target
\* status) pair is not in the transition graph fails with a 400-class
\* InvalidTransition and leaves the complaint exactly as it was (status,
\* resolvedBy/resolvedAt, history).
C1_InvalidTransitionRejected ==
  [][\A actor \in Privileged, id \in DOMAIN complaints, status \in Statuses :
       (~ValidTransition(complaints[id].status, status)
          /\ updateComplaintStatus(actor, id, status))
       => (resp'.code = BadRequest /\ complaints'[id] = complaints[id])]_vars

\* C2: a transition command by staff or admin on a complaint in status s with
\* a target t such that (s, t) is in the transition graph answers 200, sets
\* the status to t and appends exactly one history entry, with previousStatus s
\* and newStatus t.
C2_ValidTransitionSucceeds ==
  [][resp'.op = "updateComplaintStatus" =>
     \A actor \in Privileged, id \in DOMAIN complaints, status \in Statuses :
       (/\ ValidTransition(complaints[id].status, status)
        /\ updateComplaintStatus(actor, id, status))
       => /\ resp' = Response("updateComplaintStatus", Ok)
          /\ complaints'[id].status = status
          /\ Len(complaints'[id].history) = Len(complaints[id].history) + 1
          /\ SubSeq(complaints'[id].history, 1, Len(complaints[id].history))
               = complaints[id].history
          /\ Last(complaints'[id].history).previousStatus = complaints[id].status
          /\ Last(complaints'[id].history).newStatus = status]_vars

\* C2 witness: pending to in-progress to resolved has been walked, each step
\* leaving its entry.
C2_Witness ==
  /\ resp = Response("updateComplaintStatus", Ok)
  /\ \E id \in DOMAIN complaints :
       LET h == complaints[id].history
       IN /\ complaints[id].status = "resolved"
          /\ Len(h) >= 3
          /\ h[Len(h) - 1].previousStatus = "pending"
          /\ h[Len(h) - 1].newStatus = "in-progress"
          /\ Last(h).previousStatus = "in-progress"
          /\ Last(h).newStatus = "resolved"

\* C3: of two transition requests on one complaint that both read status
\* pending, the one that writes second is refused as a stale conflict: a write
\* whose read status is pending while the stored status no longer is changes
\* nothing and answers with a 400-class InvalidTransition.
C3_StaleWriteRejected ==
  [][\A q \in Requests :
       (/\ q \in DOMAIN inflight
        /\ inflight[q].previousStatus = "pending"
        /\ complaints[inflight[q].id].status # "pending"
        /\ writeComplaintStatus(q))
       => (resp'.code = BadRequest /\ complaints' = complaints)]_vars

\* C4: once a complaint is resolved or closed, no command puts it back into
\* pending or in-progress.
C4_NoReopen ==
  [][\A id \in DOMAIN complaints :
       (complaints[id].status \in {"resolved", "closed"} /\ id \in DOMAIN complaints')
       => complaints'[id].status \notin {"pending", "in-progress"}]_vars

\* The indices of the history entries that carry a newStatus.
StatusEntries(h) == {i \in 1..Len(h) : h[i].newStatus # NoStatus}

\* C5: every complaint's history accounts for its status: the status is the
\* newStatus of the latest entry that carries one, and every status-change
\* entry's previousStatus is the status the complaint had just before it, which
\* is the newStatus of the status entry before it.
C5_HistoryAccountsForStatus ==
  \A id \in DOMAIN complaints :
    LET h == complaints[id].history
        S == StatusEntries(h)
    IN /\ S # {}
       /\ \A i \in S :
            /\ (\A j \in S : j <= i) => complaints[id].status = h[i].newStatus
            /\ \A j \in S :
                 (i < j /\ \A k \in S : ~(i < k /\ k < j))
                 => h[j].previousStatus = h[i].newStatus

\* C6: every successful state-affecting command of the complaint controller
\* leaves exactly one new history entry for its mutation: a transition,
\* assignment, rating or escalation that answers 200 makes the history one
\* entry longer, and a created complaint holds the creation's entry plus, when
\* the creation auto-assigned it, the one entry of that assignment.
C6_OneAuditEntryPerCommand ==
  [][/\ \A actor \in Creators, priority \in PriorityInputs :
          (complaints = <<>> /\ createComplaint(actor, priority))
          => \A id \in DOMAIN complaints' :
               Len(complaints'[id].history)
                 = IF complaints'[id].assignedTo = NoUser THEN 1 ELSE 2
     /\ \A actor \in Callers, id \in DOMAIN complaints :
          (\/ \E status \in Statuses : updateComplaintStatus(actor, id, status)
           \/ \E staffId \in StaffIdInputs : assignComplaint(actor, id, staffId)
           \/ \E rating \in RatingInputs, feedback \in FeedbackInputs :
                rateComplaint(actor, id, rating, feedback)
           \/ escalateComplaint(actor, id))
          => (resp'.code = Ok
                => Len(complaints'[id].history) = Len(complaints[id].history) + 1)
    ]_vars

ValidRatings == {r \in RatingInputs : 1 <= r /\ r <= 5}

\* C7: for a rating in 1..5 on an existing complaint, rate answers 200 exactly
\* when the caller owns the complaint and its status is resolved; it answers
\* 403 (Forbidden) for every caller who is not the owner and 400 for the owner
\* when the status is not resolved; a rate that does not answer 200 leaves
\* rating and feedback as they were and creates no notification.
C7_RateOnlyOwnerWhenResolved ==
  [][resp'.op = "rateComplaint" =>
     \A actor \in Callers, id \in DOMAIN complaints,
        rating \in ValidRatings, feedback \in FeedbackInputs :
       rateComplaint(actor, id, rating, feedback)
       => LET c == complaints[id]
          IN /\ resp'.code = Ok <=> (c.userId = actor /\ c.status = "resolved")
             /\ c.userId # actor => resp'.code = Forbidden
             /\ (c.userId = actor /\ c.status # "resolved")
                  => resp'.code = BadRequest
             /\ resp'.code # Ok
                  => /\ complaints'[id].rating = c.rating
                     /\ complaints'[id].feedback = c.feedback
                     /\ notifications' = notifications]_vars

\* C7 witness: a caller was refused with 403 on a resolved, still unrated
\* complaint.
C7_Witness ==
  /\ resp = Response("rateComplaint", Forbidden)
  /\ \E id \in DOMAIN complaints :
       complaints[id].status = "resolved" /\ complaints[id].rating = NoRating

\* C8: a rating is set once: when a complaint has a rating, every rate on it
\* fails, and its rating and feedback never change again.
C8_RatingSetOnce ==
  [][\A id \in DOMAIN complaints :
       complaints[id].rating # NoRating
       => /\ \A actor \in Callers, rating \in RatingInputs,
               feedback \in FeedbackInputs :
               rateComplaint(actor, id, rating, feedback) => resp'.code # Ok
          /\ id \in DOMAIN complaints'
               => /\ complaints'[id].rating = complaints[id].rating
                  /\ complaints'[id].feedback = complaints[id].feedback]_vars

\* C9: an escalate that answers 200 raises escalationLevel by exactly 1, sets
\* priority to high and leaves the status; over any step escalationLevel does
\* not decrease, and a complaint with escalationLevel above 0 has priority high.
C9_EscalationMonotone ==
  [][/\ resp' = Response("escalateComplaint", Ok) =>
        \A actor \in Callers, id \in DOMAIN complaints :
          escalateComplaint(actor, id)
          => /\ complaints'[id].escalationLevel = complaints[id].escalationLevel + 1
             /\ complaints'[id].priority = "high"
             /\ complaints'[id].status = complaints[id].status
     /\ \A id \in DOMAIN complaints \cap DOMAIN complaints' :
          /\ complaints'[id].escalationLevel >= complaints[id].escalationLevel
          /\ complaints'[id].escalationLevel > 0 => complaints'[id].priority = "high"
    ]_vars

\* C9 witness: a complaint created with the default priority has been
\* escalated twice.
C9_Witness ==
  /\ resp = Response("escalateComplaint", Ok)
  /\ \E id \in DOMAIN complaints :
       /\ complaints[id].escalationLevel = 2
       /\ complaints[id].priority = "high"
       /\ complaints[id].history[1].action = "Complaint created"

\* How many copies of document n the step adds to the Notification collection.
Added(n) == CopiesIn(n, notifications') - CopiesIn(n, notifications)

\* C10: an escalate that answers 200 adds to the Notification collection
\* exactly one "Complaint Escalated" document about the complaint for every
\* admin account, and nothing else: none for a staff or resident account.
C10_EscalationNotifiesEveryAdmin ==
  [][resp' = Response("escalateComplaint", Ok) =>
     \A actor \in Callers, id \in DOMAIN complaints :
       escalateComplaint(actor, id)
       => /\ \A u \in UserIds :
               users[u].role = "admin"
               => Added(Notification(u, "Complaint Escalated", "warning", id)) = 1
          /\ \A n \in BagToSet(notifications') :
               Added(n) = IF /\ n.userId \in UserIds
                             /\ users[n.userId].role = "admin"
                             /\ n.title = "Complaint Escalated"
                             /\ n.relatedId = id
                            THEN 1 ELSE 0]_vars

\* C10 witness: after an escalation both admin accounts, and nobody else, hold
\* an escalation notification.
C10_Witness ==
  /\ resp = Response("escalateComplaint", Ok)
  /\ \A u \in UserIds :
       (\E n \in BagToSet(notifications) :
          n.userId = u /\ n.title = "Complaint Escalated")
       <=> u \in {"a1", "a2"}

\* The ids of the batch whose complaint may move to the target status.
Eligible(complaintIds, status) ==
  {id \in Matched(complaintIds) : ValidTransition(complaints[id].status, status)}

\* C11: a bulk status update over a batch of existing ids answers with
\* matched = the number of ids in the batch and modified = the number of them
\* whose current status may move to the target status.
C11_BulkSummaryCountsEligible ==
  [][resp'.op \in {"bulkUpdateStatus", "bulkUpdateComplaintsStatus"} =>
     \A actor \in BulkCallers, complaintIds \in IdInputs, status \in Statuses :
       (/\ complaintIds # {}
        /\ complaintIds \subseteq DOMAIN complaints
        /\ \/ bulkUpdateStatus(actor, complaintIds, status)
           \/ bulkUpdateComplaintsStatus(actor, complaintIds, status)
        /\ resp'.code = Ok)
       => /\ resp'.matched = Cardinality(complaintIds)
          /\ resp'.modified = Cardinality(Eligible(complaintIds, status))]_vars

\* The copies of notification n in the store after the step minus before it.
NewCopies(n) == CopiesIn(n, notifications') - CopiesIn(n, notifications)

\* C12: a bulk status update handles every id of the batch on its own: an
\* eligible complaint gets the target status, one more history entry and one
\* notification to its owner; an ineligible complaint stays exactly as it was
\* and nobody is notified about it; an unknown id creates nothing.
C12_BulkPerTicket ==
  [][resp'.op \in {"bulkUpdateStatus", "bulkUpdateComplaintsStatus"} =>
     \A actor \in BulkCallers, complaintIds \in IdInputs, status \in Statuses :
       (/\ \/ bulkUpdateStatus(actor, complaintIds, status)
           \/ bulkUpdateComplaintsStatus(actor, complaintIds, status)
        /\ resp'.code = Ok)
       => /\ DOMAIN complaints' = DOMAIN complaints
          /\ \A id \in Eligible(complaintIds, status) :
               /\ complaints'[id].status = status
               /\ Len(complaints'[id].history) = Len(complaints[id].history) + 1
               /\ \E n \in BagToSet(notifications') :
                    /\ n.userId = complaints[id].userId
                    /\ n.relatedId = id
                    /\ NewCopies(n) = 1
          /\ \A id \in Matched(complaintIds) \ Eligible(complaintIds, status) :
               /\ complaints'[id] = complaints[id]
               /\ \A n \in BagToSet(notifications') :
                    n.relatedId = id => NewCopies(n) = 0
          /\ \A n \in BagToSet(notifications') :
               n.relatedId \notin DOMAIN complaints => NewCopies(n) = 0]_vars

\* C13: a bulk delete removes only the pending complaints of the batch: every
\* complaint of the batch in another status is still there, unchanged, and the
\* deleted count of the response is the number of pending complaints in the
\* batch.
C13_BulkDeleteOnlyPending ==
  [][resp'.op \in {"bulkDelete", "bulkDeleteComplaints"} =>
     \A actor \in BulkCallers, complaintIds \in IdInputs :
       (/\ \/ bulkDelete(actor, complaintIds)
           \/ bulkDeleteComplaints(actor, complaintIds)
        /\ resp'.code = Ok)
       => /\ \A id \in Matched(complaintIds) :
               complaints[id].status # "pending"
               => (id \in DOMAIN complaints' /\ complaints'[id] = complaints[id])
          /\ resp'.deleted = Cardinality(PendingOf(complaintIds))]_vars

\* C14: a command that answers 500 because a store operation failed has
\* changed nothing: every complaint (status, resolvedBy/resolvedAt, history)
\* and the Notification collection are as they were before it.
C14_FailedCommandChangesNothing ==
  [][resp'.code = ServerError
     => (complaints' = complaints /\ notifications' = notifications)]_vars

\* C15: a notification is stored before it is pushed and whatever the hub's
\* state: an event delivered on a user's room comes with a notification for
\* that user stored by the same command; a status update that answers 200 has
\* stored its notification, which is in the owner's inbox, also when the socket
\* server was never created or the owner has no socket; and getNotifications
\* returns every stored notification of the caller.
C15_NotificationStoredBeforePush ==
  [][/\ \A e \in BagToSet(pushed') :
          e.room.kind = "user"
          => \E n \in BagToSet(notifications') :
               n.userId = e.room.id /\ NewCopies(n) >= 1
     /\ resp' = Response("updateComplaintStatus", Ok) =>
          \A actor \in Callers, id \in DOMAIN complaints, status \in Statuses :
            updateComplaintStatus(actor, id, status)
            => LET n == StatusNotification(complaints[id], id, status)
               IN /\ NewCopies(n) = 1
                  /\ n \in DOMAIN Inbox(complaints[id].userId, notifications')
     /\ resp'.op = "getNotifications" =>
          \A actor \in HubUsers :
            getNotifications(actor)
            => \A n \in BagToSet(notifications) :
                 n.userId = actor
                 => (n \in DOMAIN resp'.data
                     /\ resp'.data[n] = CopiesIn(n, notifications))]_vars

\* C15 witness: a status update answered 200 while the socket server had never
\* been created; nothing was pushed and the owner's notification is stored.
C15_Witness ==
  /\ resp = Response("updateComplaintStatus", Ok)
  /\ ~io
  /\ pushed = EmptyBag
  /\ \E id \in DOMAIN complaints, n \in BagToSet(notifications) :
       /\ n.userId = complaints[id].userId
       /\ n.title = "Complaint Update"
       /\ n.relatedId = id

HasInternalComment(c) ==
  \E i \in 1..Len(c.comments) : c.comments[i].isInternal

\* C17: the owner of a complaint never sees an internal comment: the complaint
\* returned to the owner by getComplaintById or getComplaints holds no comment
\* with isInternal true, and no event carrying an internal comment is delivered
\* to a socket of the owner, the complaint's room included.
C17_InternalCommentHiddenFromOwner ==
  [][/\ resp'.op = "getComplaintById" =>
          \A actor \in Commenters, id \in DOMAIN complaints :
            (/\ getComplaintById(actor, id)
             /\ resp'.code = Ok
             /\ complaints[id].userId = actor)
            => ~HasInternalComment(resp'.data)
     /\ resp'.op = "getComplaints" =>
          \A actor \in Commenters, status \in StatusFilters,
             assignedTo \in AssigneeFilters :
            getComplaints(actor, status, assignedTo)
            => \A id \in DOMAIN resp'.data :
                 resp'.data[id].userId = actor
                 => ~HasInternalComment(resp'.data[id])
     /\ \A e \in BagToSet(pushed') :
          (e.isInternal /\ e.room.id \in DOMAIN complaints)
          => e.to # complaints[e.room.id].userId]_vars

\* The number of notifications addressed to userId the step adds to the store.
AddedFor(userId) ==
  BagCardinality(Inbox(userId, notifications'))
    - BagCardinality(Inbox(userId, notifications))

\* C18: an internal comment creates no notification for the complaint's owner
\* and sends nothing to the owner's user room; a comment that is not internal,
\* written by somebody other than the owner, creates exactly one notification
\* for the owner.
C18_InternalCommentNotifiesNobody ==
  [][resp'.op = "addComment" =>
     \A actor \in Commenters, id \in DOMAIN complaints, isInternal \in BOOLEAN :
       addComment(actor, id, isInternal)
       => LET owner == complaints[id].userId
          IN /\ isInternal
                  => /\ AddedFor(owner) = 0
                     /\ \A e \in BagToSet(pushed') : e.room # UserRoom(owner)
             /\ (~isInternal /\ actor # owner)
                  => /\ AddedFor(owner) = 1
                     /\ NewCopies(Notification(owner,
                                   "New Comment on Your Complaint", "info", id)) = 1
          ]_vars

\* C18 witness: a staff member has added an internal comment while the owner
\* had a socket; the owner has no comment notification and received nothing on
\* the user room.
C18_Witness ==
  /\ resp.op = "addComment"
  /\ resp.code = Ok
  /\ \E i \in 1..Len(resp.data.comments) :
       /\ resp.data.comments[i].isInternal
       /\ resp.data.comments[i].userId # resp.data.userId
  /\ <<UserRoom(resp.data.userId), resp.data.userId>> \in rooms
  /\ \A n \in BagToSet(notifications) :
       n.title # "New Comment on Your Complaint"

\* The step answered 403 and changed no complaint, no history and no
\* notification, and delivered nothing.
Refused ==
  /\ resp'.code = Forbidden
  /\ complaints' = complaints
  /\ notifications' = notifications
  /\ pushed' = EmptyBag
  /\ published' = EmptyBag

\* C19: a resident who calls transition, assign, escalate or one of the bulk
\* commands is answered 403, and the call changes no complaint and creates no
\* history entry and no notification.
C19_ResidentForbidden ==
  [][\A actor \in Residents :
       /\ resp'.op = "updateComplaintStatus" =>
            \A id \in ComplaintIds, status \in ResidentStatusInputs :
              updateComplaintStatus(actor, id, status) => Refused
       /\ resp'.op = "assignComplaint" =>
            \A id \in ComplaintIds, staffId \in ResidentStaffIdInputs :
              assignComplaint(actor, id, staffId) => Refused
       /\ resp'.op = "escalateComplaint" =>
            \A id \in ComplaintIds : escalateComplaint(actor, id) => Refused
       /\ resp'.op = "bulkUpdateStatus" =>
            \A complaintIds \in IdInputs, status \in ResidentStatusInputs :
              bulkUpdateStatus(actor, complaintIds, status) => Refused
       /\ resp'.op = "bulkUpdateComplaintsStatus" =>
            \A complaintIds \in IdInputs, status \in ResidentStatusInputs :
              bulkUpdateComplaintsStatus(actor, complaintIds, status) => Refused
       /\ resp'.op = "bulkAssign" =>
            \A complaintIds \in IdInputs, staffId \in ResidentStaffIdInputs :
              bulkAssign(actor, complaintIds, staffId) => Refused
       /\ resp'.op = "bulkAssignComplaints" =>
            \A complaintIds \in IdInputs, staffId \in ResidentStaffIdInputs :
              bulkAssignComplaints(actor, complaintIds, staffId) => Refused
       /\ resp'.op = "bulkDelete" =>
            \A complaintIds \in IdInputs : bulkDelete(actor, complaintIds) => Refused
       /\ resp'.op = "bulkDeleteComplaints" =>
            \A complaintIds \in IdInputs :
              bulkDeleteComplaints(actor, complaintIds) => Refused]_vars

\* C19 witness: a resident's assign on an existing, already worked-on
\* complaint was answered 403.
C19_Witness ==
  /\ resp = Response("assignComplaint", Forbidden)
  /\ \E id \in DOMAIN complaints : complaints[id].status = "in-progress"

\* C20: a resident's comment on a complaint of another user is answered 403
\* and the complaint gets neither the comment nor a history entry.
C20_ResidentCommentsOwnOnly ==
  [][resp'.op = "addComment" =>
     \A actor \in Residents, id \in DOMAIN complaints, isInternal \in BOOLEAN :
       (addComment(actor, id, isInternal) /\ complaints[id].userId # actor)
       => (resp'.code = Forbidden /\ complaints' = complaints)]_vars

\* C21: a bulk assignment whose staffId is not a verified staff account is
\* answered 400 (InvalidAssignee), and no complaint's assignee or history
\* changes and no notification is created.
C21_InvalidAssigneeRejected ==
  [][resp'.op \in {"bulkAssign", "bulkAssignComplaints"} =>
     \A actor \in BulkCallers, complaintIds \in IdInputs,
        staffId \in StaffIdInputs \ verifiedStaff :
       (/\ authorize({"admin", "staff"}, actor)
        /\ \/ bulkAssign(actor, complaintIds, staffId)
           \/ bulkAssignComplaints(actor, complaintIds, staffId))
       => /\ resp'.code = BadRequest
          /\ complaints' = complaints
          /\ notifications' = notifications]_vars

\* C22: deleting a complaint succeeds exactly when the caller is its owner
\* and the status is pending or in-progress, or the caller is staff or admin;
\* otherwise the answer is 403 and the complaint is still there, unchanged.
C22_DeleteByOwnerOrStaff ==
  [][resp'.op = "deleteComplaint" =>
     \A actor \in Commenters, id \in DOMAIN complaints :
       deleteComplaint(actor, id)
       => IF \/ users[actor].role \in {"admin", "staff"}
             \/ /\ complaints[id].userId = actor
                /\ complaints[id].status \in {"pending", "in-progress"}
            THEN resp'.code = Ok /\ id \notin DOMAIN complaints'
            ELSE resp'.code = Forbidden /\ complaints' = complaints]_vars

\* The number of emits of the step that went to room.
PublishedTo(room) ==
  BagCardinality([e \in {x \in BagToSet(published') : x.room = room} |->
                    published'[e]])

\* C23: creating a complaint publishes exactly one event on the staff room; a
\* successful move to in-progress by staff or admin publishes exactly one
\* event on the complaint's room and exactly one on the owner's user room, and
\* afterwards the owner's inbox holds a notification that refers to the
\* complaint.
C23_CreateThenTransitionPublishes ==
  [][/\ resp'.op = "createComplaint" => PublishedTo(StaffRoom) = 1
     /\ resp' = Response("updateComplaintStatus", Ok) =>
          \A actor \in Privileged, id \in DOMAIN complaints :
            updateComplaintStatus(actor, id, "in-progress")
            => /\ PublishedTo(ComplaintRoom(id)) = 1
               /\ PublishedTo(UserRoom(complaints[id].userId)) = 1
               /\ \E n \in DOMAIN Inbox(complaints[id].userId, notifications') :
                    n.relatedId = id]_vars

\* C24: what a resident sees depends on ownership: getComplaintById on a
\* complaint of another user is answered 403, and getComplaints returns only
\* complaints the caller owns, whatever status or assignedTo filter is sent.
C24_ResidentSeesOwnOnly ==
  [][/\ resp'.op = "getComplaintById" =>
          \A actor \in Residents, id \in DOMAIN complaints :
            (getComplaintById(actor, id) /\ complaints[id].userId # actor)
            => resp' = Response("getComplaintById", Forbidden)
     /\ resp'.op = "getComplaints" =>
          \A actor \in Residents, status \in StatusFilters,
             assignedTo \in AssigneeFilters :
            getComplaints(actor, status, assignedTo)
            => \A id \in DOMAIN resp'.data : resp'.data[id].userId = actor]_vars

\* C24 witness: a resident asked for a complaint of another user, one that
\* already carries a comment, and was answered 403.
C24_Witness ==
  /\ resp = Response("getComplaintById", Forbidden)
  /\ \E id \in DOMAIN complaints : Len(complaints[id].comments) > 0

\* A socket is live from its connection to its disconnect: in between it is in
\* the room of its own user.
Live(userId, members) == <<UserRoom(userId), userId>> \in members

\* The rooms a socket is in.
RoomsOf(userId, members) == {m[1] : m \in {x \in members : x[2] = userId}}

\* C25: a live socket is in the room of its own user, in staff-room exactly
\* when its role is staff or admin, and otherwise only in complaint rooms; it
\* is in no other user's room; a socket that is not live is in no room.  Its
\* complaint rooms change only by its own subscribe and unsubscribe, a
\* connection starts with no complaint room and a disconnect leaves every room.
C25_RoomMembership ==
  /\ [](\A userId \in UserIds :
          /\ ~Live(userId, rooms) => RoomsOf(userId, rooms) = {}
          /\ \A room \in RoomsOf(userId, rooms) :
               /\ room.kind = "user" => room = UserRoom(userId)
               /\ room.kind \in {"user", "staff-room", "complaint"}
          /\ Live(userId, rooms) =>
               (StaffRoom \in RoomsOf(userId, rooms)
                  <=> users[userId].role \in {"admin", "staff"}))
  /\ [][\A userId \in HubUsers :
          /\ (~Live(userId, rooms) /\ Live(userId, rooms'))
               => RoomsOf(userId, rooms') \subseteq {UserRoom(userId), StaffRoom}
          /\ (Live(userId, rooms) /\ ~Live(userId, rooms'))
               => RoomsOf(userId, rooms') = {}
          /\ \A complaintId \in ComplaintIds :
               LET room == ComplaintRoom(complaintId)
               IN /\ (room \notin RoomsOf(userId, rooms)
                        /\ room \in RoomsOf(userId, rooms'))
                       => subscribeComplaint(userId, complaintId)
                  /\ (room \in RoomsOf(userId, rooms)
                        /\ room \notin RoomsOf(userId, rooms'))
                       => \/ unsubscribeComplaint(userId, complaintId)
                          \/ disconnect(userId)
                  /\ subscribeComplaint(userId, complaintId)
                       => RoomsOf(userId, rooms') = RoomsOf(userId, rooms) \cup {room}
                  /\ unsubscribeComplaint(userId, complaintId)
                       => RoomsOf(userId, rooms') = RoomsOf(userId, rooms) \ {room}]_vars

\* C25 witness: a resident's socket subscribed to a complaint next to a staff
\* socket that did not.
C25_Witness ==
  /\ RoomsOf("r1", rooms) = {UserRoom("r1"), ComplaintRoom("c1")}
  /\ RoomsOf("s1", rooms) = {UserRoom("s1"), StaffRoom}

IsPrefix(t, s) == Len(t) <= Len(s) /\ SubSeq(s, 1, Len(t)) = t

\* The entries of a history that record an escalation.
Escalations(history) ==
  Cardinality({i \in DOMAIN history : history[i].action = "Complaint escalated"})

\* C27: history and comments of an existing complaint only grow at the end:
\* in every step, whatever requests are in flight, the old history is a
\* prefix of the new one and the old comments are a prefix of the new ones.
C27_HistoryAndCommentsAppendOnly ==
  [][\A id \in DOMAIN complaints \cap DOMAIN complaints' :
       /\ IsPrefix(complaints[id].history, complaints'[id].history)
       /\ IsPrefix(complaints[id].comments, complaints'[id].comments)]_vars

\* C27 witness: two escalations that read the same document have both been
\* saved, each with its own entry at the end of the history.
C27_Witness ==
  \E id \in DOMAIN complaints :
    /\ Escalations(complaints[id].history) = 2
    /\ complaints[id].escalationLevel = 1
    /\ Last(complaints[id].history).action = "Complaint escalated"

\* C29: every escalateComplaint that answers 200 leaves the complaint's
\* escalationLevel one above the stored one and one more escalation entry in
\* its history, whatever other request wrote between its read and its save.
C29_EscalationsNotLost ==
  [][resp' = Response("escalateComplaint", Ok) =>
       \A q \in DOMAIN inflight :
         writeEscalate(q) =>
           LET id == inflight[q].id
           IN /\ complaints'[id].escalationLevel = complaints[id].escalationLevel + 1
              /\ Escalations(complaints'[id].history)
                   = Escalations(complaints[id].history) + 1]_vars

\* C28: after createComplaint answered, the new complaint is pending and its
\* assignedTo is either not set or a verified staff account that got exactly
\* one "New Complaint Assigned" notification for it; the answer is 201
\* whether or not an await of autoAssignComplaint rejected.
C28_CreatedPendingAndAssigneeNotified ==
  [][resp'.op = "createComplaint" =>
       /\ resp'.code = Created
       /\ \A id \in DOMAIN complaints' \ DOMAIN complaints :
            LET c == complaints'[id]
            IN /\ c.status = "pending"
               /\ \/ c.assignedTo = NoUser
                  \/ /\ c.assignedTo \in verifiedStaff
                     /\ Added(Notification(c.assignedTo, "New Complaint Assigned",
                                           "info", id)) = 1]_vars

\* C30: a complaint whose status is resolved or closed has resolvedBy and
\* resolvedAt set, whichever handler wrote the status.
C30_ResolvedHasResolver ==
  \A id \in DOMAIN complaints :
    complaints[id].status \in {"resolved", "closed"}
    => /\ complaints[id].resolvedBy # NoUser
       /\ complaints[id].resolvedAt # NoDate

=============================================================================
